---- MODULE Spec2Model ----
(***************************************************************************)
(* A model of the geo-service search core:                                 *)
(*   - CollectHistoricalRanges      (src/src/search/OpenMeteoApiUtils.cc)  *)
(*   - ExtractRelationIds / ExtractNodes                                   *)
(*                                  (src/src/search/OverpassApiUtils.cc)   *)
(*   - formatRegionsRequest, isValidBoundingBox, StartFindRegions and      *)
(*     findRegions                  (src/src/search/SearchEngine.cc)       *)
(* Four specifications share the module's variables: Spec (one incremental *)
(* region-search session), SpecCompose (the request composer), SpecExtract *)
(* (the response parsers) and SpecRoll (the historical date windows).      *)
(***************************************************************************)
EXTENDS Integers, Sequences, FiniteSets

VARIABLES
    \* ---- the incremental region search (SearchEngine.cc) ----
    started,     \* a handler returned by StartFindRegions exists
    processed,   \* the std::set<OsmId> the handler captured
    crashed,     \* the process was aborted inside a call
    call,        \* the most recent invocation of the handler, with what it did
    nsteps,      \* invocations of the handler so far
    emitted,     \* per region id: how many place records were returned for it
    eligible,    \* per region id: invocations that posted, got the id back and could resolve it
    failed,      \* ids handed to the geocoding lookup that it did not resolve
    \* ---- the request composer alone ----
    compIn, compOut,
    \* ---- the response parsers alone ----
    exJson, exCall, exOut,
    \* ---- the date windows ----
    rollIn, rollOut

sessVars == <<started, processed, crashed, call, nsteps, emitted, eligible, failed>>
compVars == <<compIn, compOut>>
exVars == <<exJson, exCall, exOut>>
rollVars == <<rollIn, rollOut>>
vars == <<sessVars, compVars, exVars, rollVars>>

(***************************************************************************)
(* Bounds of the model.                                                    *)
(***************************************************************************)
MaxSteps == 2        \* invocations of one handler
MaxElements == 3     \* elements in one parsed response
MaxNumYears == 2     \* largest numYears passed to CollectHistoricalRanges
KmScale == 2         \* lengths are counted in 1/KmScale km, so 2000.5 km is a value

Max(a, b) == IF a >= b THEN a ELSE b

SeqToSet(s) == {s[i] : i \in 1..Len(s)}

(***************************************************************************)
(* Calendar dates: std::chrono::year_month_day, a triple of fields that    *)
(* need not name an existing day (2023-02-29 is a value of the type).      *)
(***************************************************************************)
Date(y, m, d) == [year |-> y, month |-> m, day |-> d]

IsLeap(y) == (y % 4 = 0) /\ ((y % 100 # 0) \/ (y % 400 = 0))

DaysInMonth(y, m) ==
    IF m = 2 THEN (IF IsLeap(y) THEN 29 ELSE 28)
    ELSE IF m \in {4, 6, 9, 11} THEN 30 ELSE 31

\* year_month_day::ok()
DateOk(dt) == dt.month \in 1..12 /\ dt.day \in 1..DaysInMonth(dt.year, dt.month)

\* operator sys_days of year_month_day: the days since 1970-01-01.  For a date
\* that is not ok() but has a valid year and month the result is
\* sys_days(y/m/1) + (d - 1): 2023-02-29 converts to the day of 2023-03-01.
SysDays(dt) ==
    LET y == IF dt.month <= 2 THEN dt.year - 1 ELSE dt.year
        era == y \div 400
        yoe == y - era * 400
        mp == (dt.month + 9) % 12
        doy == (153 * mp + 2) \div 5 + dt.day - 1
        doe == yoe * 365 + yoe \div 4 - yoe \div 100 + doy
    IN  era * 146097 + doe - 719468

\* year_month_day(sys_days): the calendar date of a day count (always ok()).
FromSysDays(n) ==
    LET z == n + 719468
        era == z \div 146097
        doe == z - era * 146097
        yoe == (doe - doe \div 1460 + doe \div 36524 - doe \div 146096) \div 365
        doy == doe - (365 * yoe + yoe \div 4 - yoe \div 100)
        mp == (5 * doy + 2) \div 153
        d == doy - (153 * mp + 2) \div 5 + 1
        m == IF mp < 10 THEN mp + 3 ELSE mp - 9
        y == yoe + era * 400
    IN  Date(IF m <= 2 THEN y + 1 ELSE y, m, d)

\* operator<=> of year_month_day compares year, then month, then day.
DateLess(a, b) ==
    \/ a.year < b.year
    \/ a.year = b.year /\ a.month < b.month
    \/ a.year = b.year /\ a.month = b.month /\ a.day < b.day

DateLessEq(a, b) == DateLess(a, b) \/ a = b

\* year_month_day -= years: the year field moves, month and day stay.
MinusYears(dt, n) == Date(dt.year - n, dt.month, dt.day)

(***************************************************************************)
(* CollectHistoricalRanges (OpenMeteoApiUtils.cc 70-99).                   *)
(***************************************************************************)
\* lines 77-80: the range re-anchored to the year of latestDate
AnchorRange(dateRange, latestDate) ==
    LET numDays == SysDays(dateRange[2]) - SysDays(dateRange[1])
        startDate == Date(latestDate.year, dateRange[1].month, dateRange[1].day)
        endDate == FromSysDays(SysDays(startDate) + numDays)
    IN  <<startDate, endDate>>

\* the loop condition of line 83, with "<" for "<="
RollBackIfNotBefore(latestDate, range) == DateLess(latestDate, range[2])

\* line 83: while (latestDate <= endDate)
RollBackCondition(latestDate, range) == DateLessEq(latestDate, range[2])

RECURSIVE RollBack(_, _)
\* lines 83-87
RollBack(latestDate, range) ==
    IF RollBackCondition(latestDate, range)
    THEN RollBack(latestDate, <<MinusYears(range[1], 1), MinusYears(range[2], 1)>>)
    ELSE range

\* lines 90-98: the i-th emitted range is the first one moved back i-1 years
CollectRanges(first, numYears) ==
    [i \in 1..Max(1, numYears) |->
        <<MinusYears(first[1], i - 1), MinusYears(first[2], i - 1)>>]

CollectHistoricalRanges(dateRange, latestDate, numYears) ==
    CollectRanges(RollBack(latestDate, AnchorRange(dateRange, latestDate)), numYears)

\* The inputs of the date-window specification.
MonthDays == {<<1, 1>>, <<1, 10>>, <<2, 1>>, <<2, 28>>, <<2, 29>>, <<3, 1>>, <<3, 10>>, <<6, 1>>, <<12, 1>>, <<12, 31>>}
DatesOf(years) ==
    {dt \in {Date(y, md[1], md[2]) : y \in years, md \in MonthDays} : DateOk(dt)}
RangeDates == DatesOf({2023, 2024})
LatestDates == DatesOf({2023, 2024, 2025})

NoRanges == <<>>
RollInputs ==
    [dateRange : RangeDates \X RangeDates, latestDate : LatestDates, numYears : 0..MaxNumYears]
IdleRollIn ==
    [dateRange |-> <<Date(2023, 1, 1), Date(2023, 1, 1)>>, latestDate |-> Date(2023, 1, 1),
     numYears |-> 0]
IdleRollOut == [done |-> TRUE, ranges |-> NoRanges]

Roll ==
    /\ ~rollOut.done
    /\ rollOut' = [done |-> TRUE,
                   ranges |-> CollectHistoricalRanges(rollIn.dateRange, rollIn.latestDate,
                                                      rollIn.numYears)]
    /\ UNCHANGED rollIn

(***************************************************************************)
(* Overpass responses.  A response text is modelled by what rapidjson      *)
(* makes of it:                                                            *)
(*   kind        "empty"     the empty string                              *)
(*               "invalid"   text that does not parse (the document stays  *)
(*                           Null)                                         *)
(*               "nonobject" JSON whose root is not an object              *)
(*               "object"    a JSON object                                 *)
(*   hasElements the object has a member "elements"                        *)
(*   isArray     that member is an array                                   *)
(*   elements    the array's items                                         *)
(* An item has a "type", possibly an "id", and "lat", "lon" and "tags".    *)
(***************************************************************************)
OsmIdValues == {1, 2}

NoTags == {}
Element(type, hasId, id, lat, lon, tags) ==
    [type |-> type, hasId |-> hasId, id |-> id, lat |-> lat, lon |-> lon, tags |-> tags]

Relation(id) == Element("relation", TRUE, id, 0, 0, NoTags)
RelationWithoutId == Element("relation", FALSE, 0, 0, 0, NoTags)
NodeElement == Element("node", TRUE, 7, 50, 14, {<<"tourism", "hotel">>, <<"name", "Alpha">>})
WayElement == Element("way", TRUE, 8, 0, 0, NoTags)

ElementValues == {Relation(i) : i \in OsmIdValues} \cup {RelationWithoutId, NodeElement, WayElement}

Json(kind, hasElements, isArray, elements) ==
    [kind |-> kind, hasElements |-> hasElements, isArray |-> isArray, elements |-> elements]

EmptyText == Json("empty", FALSE, FALSE, <<>>)
InvalidText == Json("invalid", FALSE, FALSE, <<>>)
NonObjectJson == Json("nonobject", FALSE, FALSE, <<>>)
ObjectWithoutElements == Json("object", FALSE, FALSE, <<>>)
ObjectWithScalarElements == Json("object", TRUE, FALSE, <<>>)
Response(elements) == Json("object", TRUE, TRUE, elements)

SeqsUpTo(S, n) == UNION {[1..k -> S] : k \in 0..n}

MalformedJson ==
    {EmptyText, InvalidText, NonObjectJson, ObjectWithoutElements, ObjectWithScalarElements}

\* a response as the Overpass service writes it: every element has its id
WellFormed(json) ==
    /\ json.kind = "object" /\ json.hasElements /\ json.isArray
    /\ \A i \in 1..Len(json.elements) : json.elements[i].hasId

JsonValues == MalformedJson \cup {Response(es) : es \in SeqsUpTo(ElementValues, MaxElements)}

\* What a parser call ends in: it returns a value, or the process is aborted.
Returned(value) == [status |-> "returned", value |-> value]
Aborted == [status |-> "aborted", value |-> <<>>]

\* document["elements"].GetArray() (OverpassApiUtils.cc 51 and 71).  On an
\* object without the member, operator[] fails RAPIDJSON_ASSERT and, with
\* assertions compiled out, yields a Null value; GetArray() on a value that is
\* no array fails RAPIDJSON_ASSERT and, with assertions compiled out, reads the
\* value's storage as an array (empty for Null, anything for a scalar).
ElementsArrayOutcomes(json) ==
    IF json.hasElements /\ json.isArray THEN {Returned(json.elements)}
    ELSE IF ~json.hasElements THEN {Aborted, Returned(<<>>)}
    ELSE {Aborted} \cup {Returned(es) : es \in SeqsUpTo(ElementValues, 1)}

\* the filter of lines 53-54 without the test of "type"
HasId(e) == e.hasId

\* lines 53-54: !id.IsNull() && type == "relation"
IsRelationWithId(e) == e.hasId /\ e.type = "relation"

RECURSIVE RelationIdsOf(_)
\* lines 50-57: the ids of the selected elements, in element order
RelationIdsOf(elements) ==
    IF elements = <<>> THEN <<>>
    ELSE (IF IsRelationWithId(Head(elements)) THEN <<Head(elements).id>> ELSE <<>>)
         \o RelationIdsOf(Tail(elements))

\* ExtractRelationIds (OverpassApiUtils.cc 40-58): every way the call can end
ExtractRelationIds(json) ==
    IF json.kind = "empty" THEN {Returned(<<>>)}
    ELSE IF json.kind # "object" THEN {Returned(<<>>)}
    ELSE {IF o.status = "aborted" THEN Aborted ELSE Returned(RelationIdsOf(o.value)) :
            o \in ElementsArrayOutcomes(json)}

\* lines 76-89: the OsmNode built from a "node" element
OsmNode(e) == [lat |-> e.lat, lon |-> e.lon, tags |-> e.tags]

RECURSIVE NodesOf(_)
\* lines 71-90
NodesOf(elements) ==
    IF elements = <<>> THEN <<>>
    ELSE (IF Head(elements).type # "node" THEN <<>> ELSE <<OsmNode(Head(elements))>>)
         \o NodesOf(Tail(elements))

\* ExtractNodes (OverpassApiUtils.cc 60-93): every way the call can end
ExtractNodes(json) ==
    IF json.kind = "empty" THEN {Returned(<<>>)}
    ELSE IF json.kind # "object" THEN {Returned(<<>>)}
    ELSE {IF o.status = "aborted" THEN Aborted ELSE Returned(NodesOf(o.value)) :
            o \in ElementsArrayOutcomes(json)}

NoParse == [status |-> "none", value |-> <<>>]

CallExtractRelationIds ==
    /\ exCall = "none"
    /\ exCall' = "ExtractRelationIds"
    /\ exOut' \in ExtractRelationIds(exJson)
    /\ UNCHANGED exJson

CallExtractNodes ==
    /\ exCall = "none"
    /\ exCall' = "ExtractNodes"
    /\ exOut' \in ExtractNodes(exJson)
    /\ UNCHANGED exJson

(***************************************************************************)
(* The region request (SearchEngine.cc 119-175).  The request text is a    *)
(* sequence of segments; the empty text is the empty sequence.             *)
(***************************************************************************)
GEOGRAPHICAL_FEATURE_INTERNATIONAL_AIRPORTS == "airports"
GEOGRAPHICAL_FEATURE_PEAKS == "peaks"
GEOGRAPHICAL_FEATURE_SEA_BEACHES == "seaBeaches"
GEOGRAPHICAL_FEATURE_SALT_LAKES == "saltLakes"

Features ==
    {GEOGRAPHICAL_FEATURE_INTERNATIONAL_AIRPORTS, GEOGRAPHICAL_FEATURE_PEAKS,
     GEOGRAPHICAL_FEATURE_SEA_BEACHES, GEOGRAPHICAL_FEATURE_SALT_LAKES}

\* lines 121-124
sz_relAirports == ".relA"
sz_relPeaks == ".relP"
sz_relSeaBeaches == ".relS"
sz_relSaltLakes == ".relL"

\* RegionPreferences: objects is the bitmask, as the set of its bits; properties
\* is the std::map, as its set of <<key, value>> pairs (one pair per key).
Preferences(objects, properties) == [objects |-> objects, properties |-> properties]

HasProperty(prefs, key) == \E kv \in prefs.properties : kv[1] = key
PropertyOf(prefs, key) == (CHOOSE kv \in prefs.properties : kv[1] = key)[2]

\* std::atoi on the property values of the model: the leading digits, 0 without any
atoi(str) ==
    CASE str = "3000" -> 3000
      [] str = "1500m" -> 1500
      [] OTHER -> 0

\* A BoundingBox is its four numbers (coords) together with what
\* GetBoundingBoxDimensionsKm measures for them, in 1/KmScale km.
BoundingBox(coords, width, height) == [coords |-> coords, width |-> width, height |-> height]

GetBoundingBoxDimensionsKm(bbox) == <<bbox.width, bbox.height>>

\* lines 126-127: "{}, {}, {}, {}" of boundingBox[0], [2], [1], [3]
BoundingBoxStr(bbox) == <<bbox.coords[1], bbox.coords[3], bbox.coords[2], bbox.coords[4]>>

Segment(seg, def, box, ele, out) == [seg |-> seg, def |-> def, box |-> box, ele |-> ele, out |-> out]

sz_requestHeader == <<Segment("header", "", <<>>, 0, "")>>
sz_requestFooter == <<Segment("footer", "", <<>>, 0, "")>>
RelKeyword == <<Segment("rel", "", <<>>, 0, "")>>
LabelText(label) == <<Segment("label", "", <<>>, 0, label)>>

\* sz_requestRelationsByNodes (lines 26-30) applied to a node definition
\* (lines 35-52): the relations with sz_regionsTags around the nodes that
\* `def` selects inside `box`, saved into the named set `out`.
RelationsByNodes(def, box, ele, out) == <<Segment("relationsByNodes", def, box, ele, out)>>

\* lines 136-139: the peaks bit is set and the property map has "minPeakHeight"
PeaksRequested(prefs) ==
    /\ GEOGRAPHICAL_FEATURE_PEAKS \in prefs.objects
    /\ HasProperty(prefs, "minPeakHeight")

\* lines 129-157: the header and the sub-queries of the enabled features
RequestBody(prefs, bbox) ==
    LET boundingBoxStr == BoundingBoxStr(bbox) IN
    sz_requestHeader
    \o (IF GEOGRAPHICAL_FEATURE_INTERNATIONAL_AIRPORTS \in prefs.objects
        THEN RelationsByNodes("sz_nodeAirportsDef", boundingBoxStr, 0, sz_relAirports)
        ELSE <<>>)
    \o (IF PeaksRequested(prefs)
        THEN RelationsByNodes("sz_nodePeaksDef", boundingBoxStr,
                              atoi(PropertyOf(prefs, "minPeakHeight")), sz_relPeaks)
        ELSE <<>>)
    \o (IF GEOGRAPHICAL_FEATURE_SEA_BEACHES \in prefs.objects
        THEN RelationsByNodes("sz_nodeSeaBeachesDef", boundingBoxStr, 0, sz_relSeaBeaches)
        ELSE <<>>)
    \o (IF GEOGRAPHICAL_FEATURE_SALT_LAKES \in prefs.objects
        THEN RelationsByNodes("sz_nodeSaltLakesDef", boundingBoxStr, 0, sz_relSeaBeaches)
        ELSE <<>>)

\* lines 163-172: "rel", the label of every feature whose bit is set, the footer
RequestIntersection(prefs) ==
    RelKeyword
    \o (IF GEOGRAPHICAL_FEATURE_INTERNATIONAL_AIRPORTS \in prefs.objects
        THEN LabelText(sz_relAirports) ELSE <<>>)
    \o (IF GEOGRAPHICAL_FEATURE_PEAKS \in prefs.objects
        THEN LabelText(sz_relPeaks) ELSE <<>>)
    \o (IF GEOGRAPHICAL_FEATURE_SEA_BEACHES \in prefs.objects
        THEN LabelText(sz_relSeaBeaches) ELSE <<>>)
    \o (IF GEOGRAPHICAL_FEATURE_SALT_LAKES \in prefs.objects
        THEN LabelText(sz_relSaltLakes) ELSE <<>>)
    \o sz_requestFooter

\* the test of line 159 as a test for the empty text
IsEmptyText(request) == request = <<>>

\* line 159: request == sz_requestHeader, no sub-query was appended
IsHeaderOnly(request) == request = sz_requestHeader

\* formatRegionsRequest (lines 119-175)
formatRegionsRequest(prefs, bbox) ==
    LET request == RequestBody(prefs, bbox) IN
    IF IsHeaderOnly(request) THEN <<>>
    ELSE request \o RequestIntersection(prefs)

\* lines 177-183
sc_maxDimensionKm == 1000

isValidBoundingBox(bbox) ==
    LET dims == GetBoundingBoxDimensionsKm(bbox) IN
    /\ dims[1] < (sc_maxDimensionKm * 2 + 1) * KmScale
    /\ dims[2] < (sc_maxDimensionKm * 2 + 1) * KmScale

\* The inputs of the composer.
PropertyMaps ==
    {{}, {<<"minPeakHeight", "3000">>}, {<<"minPeakHeight", "high">>}, {<<"units", "1500m">>}}
AllPreferences == {Preferences(o, p) : o \in SUBSET Features, p \in PropertyMaps}

SmallCoords == <<20, 20, 21, 22>>      \* south, west, north, east, in half degrees
LargeCoords == <<0, 0, 36, 40>>
Km(n) == n * KmScale
SmallBox == BoundingBox(SmallCoords, Km(55), Km(110))
LimitBox == BoundingBox(LargeCoords, Km(2000), Km(2000))
WideBox == BoundingBox(LargeCoords, Km(2000) + 1, Km(110))   \* just over 2000 km wide
TallBox == BoundingBox(LargeCoords, Km(110), Km(2000) + 1)   \* just over 2000 km high
HugeBox == BoundingBox(LargeCoords, Km(2001), Km(3000))
BoundingBoxes == {SmallBox, LimitBox, WideBox, TallBox, HugeBox}

NoRequest == <<>>

ComposeInputs == [prefs : AllPreferences, bbox : BoundingBoxes]
IdleCompIn == [prefs |-> Preferences({}, {}), bbox |-> SmallBox]
IdleCompOut == [done |-> TRUE, request |-> NoRequest]

Compose ==
    /\ ~compOut.done
    /\ compOut' = [done |-> TRUE, request |-> formatRegionsRequest(compIn.prefs, compIn.bbox)]
    /\ UNCHANGED compIn

(***************************************************************************)
(* The incremental region search (SearchEngine.cc 210-281).                *)
(***************************************************************************)
RECURSIVE InsertSorted(_, _)
InsertSorted(x, s) ==
    IF s = <<>> THEN <<x>>
    ELSE IF x <= Head(s) THEN <<x>> \o s
    ELSE <<Head(s)>> \o InsertSorted(x, Tail(s))

RECURSIVE Sort(_)
\* std::sort (line 254)
Sort(s) == IF s = <<>> THEN <<>> ELSE InsertSorted(Head(s), Sort(Tail(s)))

RECURSIVE SetToSeq(_)
\* the elements of a std::set in iteration order
SetToSeq(S) ==
    IF S = {} THEN <<>>
    ELSE LET least == CHOOSE x \in S : \A y \in S : x <= y
         IN  <<least>> \o SetToSeq(S \ {least})

RECURSIVE set_difference(_, _)
\* std::set_difference of two sorted ranges (lines 255-256)
set_difference(a, b) ==
    IF a = <<>> THEN <<>>
    ELSE IF b = <<>> THEN a
    ELSE IF Head(a) < Head(b) THEN <<Head(a)>> \o set_difference(Tail(a), b)
    ELSE IF Head(b) < Head(a) THEN set_difference(a, Tail(b))
    ELSE set_difference(Tail(a), Tail(b))

\* nominatim::RelationInfo of a relation id
NameOf(id) == IF id = 1 THEN "Region1" ELSE "Region2"
RelationInfo(id) ==
    [osm_id |-> id, name |-> NameOf(id), country |-> "Country", latitude |-> 40 + id,
     longitude |-> 10 + id]

RECURSIVE LookupRelationInformation(_, _)
\* nominatim::LookupRelationInformation: the infos of those of `ids` that the
\* geocoding service resolves; an id it does not resolve is absent.
LookupRelationInformation(ids, resolvable) ==
    IF ids = <<>> THEN <<>>
    ELSE (IF Head(ids) \in resolvable THEN <<RelationInfo(Head(ids))>> ELSE <<>>)
         \o LookupRelationInformation(Tail(ids), resolvable)

\* lines 59-67
toGeoProtoPlace(info) ==
    [name |-> info.name, country |-> info.country,
     center |-> [latitude |-> info.latitude, longitude |-> info.longitude]]

\* What one run of findRegions did and left behind.
Outcome(status, request, posted, relationIds, toProcess, lookedUp, infos, processedAfter) ==
    [status |-> status, request |-> request, posted |-> posted, relationIds |-> relationIds,
     relationIdsToProcess |-> toProcess, lookedUp |-> lookedUp, infos |-> infos,
     processed |-> processedAfter]

\* findRegions that goes on when ids came back and ids are left to look up, and
\* that looks up every id of the response without removing the processed ones
findRegionsWithoutDifference(bbox, prefs, processedSet, extraction, resolvable) ==
    IF ~isValidBoundingBox(bbox)
    THEN Outcome("returned", NoRequest, FALSE, <<>>, <<>>, FALSE, <<>>, processedSet)
    ELSE
    LET request == formatRegionsRequest(prefs, bbox) IN
    IF request = <<>>
    THEN Outcome("returned", request, FALSE, <<>>, <<>>, FALSE, <<>>, processedSet)
    ELSE IF extraction.status = "aborted"
    THEN Outcome("aborted", request, TRUE, <<>>, <<>>, FALSE, <<>>, processedSet)
    ELSE
    LET relationIds == Sort(extraction.value)
        infos == LookupRelationInformation(relationIds, resolvable)
    IN
    IF relationIds = <<>>
    THEN Outcome("returned", request, TRUE, relationIds, <<>>, FALSE, <<>>, processedSet)
    ELSE IF infos = <<>>
    THEN Outcome("returned", request, TRUE, relationIds, relationIds, TRUE, <<>>, processedSet)
    ELSE Outcome("returned", request, TRUE, relationIds, relationIds, TRUE, infos,
                 processedSet \cup SeqToSet(relationIds))

\* findRegions that goes on when ids came back and ids are left to look up, and
\* that assigns the ids it looked up to the processed set where line 278 inserts
findRegionsReplacingProcessed(bbox, prefs, processedSet, extraction, resolvable) ==
    IF ~isValidBoundingBox(bbox)
    THEN Outcome("returned", NoRequest, FALSE, <<>>, <<>>, FALSE, <<>>, processedSet)
    ELSE
    LET request == formatRegionsRequest(prefs, bbox) IN
    IF request = <<>>
    THEN Outcome("returned", request, FALSE, <<>>, <<>>, FALSE, <<>>, processedSet)
    ELSE IF extraction.status = "aborted"
    THEN Outcome("aborted", request, TRUE, <<>>, <<>>, FALSE, <<>>, processedSet)
    ELSE
    LET sorted == Sort(extraction.value)
        relationIdsToProcess == set_difference(sorted, SetToSeq(processedSet))
        infos == LookupRelationInformation(relationIdsToProcess, resolvable)
    IN
    IF relationIdsToProcess = <<>>
    THEN Outcome("returned", request, TRUE, sorted, <<>>, FALSE, <<>>, processedSet)
    ELSE IF infos = <<>>
    THEN Outcome("returned", request, TRUE, sorted, relationIdsToProcess, TRUE, <<>>,
                 processedSet)
    ELSE Outcome("returned", request, TRUE, sorted, relationIdsToProcess, TRUE, infos,
                 SeqToSet(relationIdsToProcess))

\* findRegions (lines 230-281).  `extraction` is how ExtractRelationIds ends on
\* the response the transport gives, `resolvable` the ids the geocoding service
\* resolves at the time of the call.
findRegions(bbox, prefs, processedSet, extraction, resolvable) ==
    IF ~isValidBoundingBox(bbox)                                          \* 233-237
    THEN Outcome("returned", NoRequest, FALSE, <<>>, <<>>, FALSE, <<>>, processedSet)
    ELSE
    LET request == formatRegionsRequest(prefs, bbox) IN                   \* 239
    IF request = <<>>                                                     \* 240-241
    THEN Outcome("returned", request, FALSE, <<>>, <<>>, FALSE, <<>>, processedSet)
    ELSE IF extraction.status = "aborted"                                 \* 245-246
    THEN Outcome("aborted", request, TRUE, <<>>, <<>>, FALSE, <<>>, processedSet)
    ELSE
    LET relationIds == extraction.value IN
    IF Len(relationIds) # 0                                               \* 247-248
    THEN Outcome("returned", request, TRUE, relationIds, <<>>, FALSE, <<>>, processedSet)
    ELSE
    LET sorted == Sort(relationIds)                                       \* 253-256
        relationIdsToProcess == set_difference(sorted, SetToSeq(processedSet))
    IN
    IF relationIdsToProcess # <<>>                                        \* 264-265
    THEN Outcome("returned", request, TRUE, sorted, relationIdsToProcess, FALSE, <<>>,
                 processedSet)
    ELSE
    LET infos == LookupRelationInformation(relationIdsToProcess, resolvable) IN  \* 268
    IF infos = <<>>                                                       \* 269-274
    THEN Outcome("returned", request, TRUE, sorted, relationIdsToProcess, TRUE, <<>>,
                 processedSet)
    ELSE Outcome("returned", request, TRUE, sorted, relationIdsToProcess, TRUE, infos,
                 processedSet \cup SeqToSet(relationIdsToProcess))        \* 278-280

\* The inputs of a session.
SessionPreferences ==
    {Preferences({}, {}),
     Preferences({}, {<<"minPeakHeight", "3000">>}),
     Preferences({GEOGRAPHICAL_FEATURE_PEAKS}, {}),
     Preferences({GEOGRAPHICAL_FEATURE_PEAKS}, {<<"units", "1500m">>}),
     Preferences({GEOGRAPHICAL_FEATURE_PEAKS}, {<<"minPeakHeight", "3000">>}),
     Preferences({GEOGRAPHICAL_FEATURE_INTERNATIONAL_AIRPORTS, GEOGRAPHICAL_FEATURE_SEA_BEACHES}, {})}

SessionBoxes == {SmallBox, WideBox, TallBox, HugeBox}

SessionResponses ==
    {EmptyText, ObjectWithoutElements, Response(<<>>), Response(<<Relation(1)>>),
     Response(<<Relation(1), Relation(1)>>), Response(<<Relation(2), NodeElement, Relation(1)>>),
     Response(<<Relation(2)>>)}

Count(seq, x) == Cardinality({i \in 1..Len(seq) : seq[i] = x})

NoCall ==
    [happened |-> FALSE, bbox |-> SmallBox, prefs |-> Preferences({}, {}),
     request |-> NoRequest, posted |-> FALSE, response |-> EmptyText, resolvable |-> {},
     status |-> "none", relationIds |-> <<>>, relationIdsToProcess |-> <<>>,
     lookedUp |-> FALSE, result |-> <<>>, processedBefore |-> {}, retried |-> FALSE]

NoCounts == [id \in OsmIdValues |-> 0]

Init ==
    /\ started = FALSE /\ processed = {} /\ crashed = FALSE /\ call = NoCall
    /\ nsteps = 0 /\ emitted = NoCounts /\ eligible = NoCounts /\ failed = {}
    /\ compIn = IdleCompIn /\ compOut = IdleCompOut
    /\ exJson = EmptyText /\ exCall = "idle" /\ exOut = NoParse
    /\ rollIn = IdleRollIn /\ rollOut = IdleRollOut

\* StartFindRegions (lines 210-222): a fresh, empty set is captured by the
\* handler that is returned.  The model follows one handler.
StartFindRegions ==
    /\ ~started
    /\ started' = TRUE
    /\ processed' = {}
    /\ UNCHANGED <<crashed, call, nsteps, emitted, eligible, failed>>

\* The transport answers a request that was posted, and only that (lines
\* 233-245): this is when findRegions reaches Post.
Posts(bbox, prefs) == isValidBoundingBox(bbox) /\ formatRegionsRequest(prefs, bbox) # <<>>

\* One invocation of the handler (lines 214-221): findRegions on the captured
\* set, every info turned into a place.  The transport's response and the
\* geocoding service's knowledge are inputs of the invocations that post.
Step ==
    /\ started /\ ~crashed /\ nsteps < MaxSteps
    /\ \E bbox \in SessionBoxes, prefs \in SessionPreferences :
       \E response \in (IF Posts(bbox, prefs) THEN SessionResponses ELSE {EmptyText}),
          resolvable \in (IF Posts(bbox, prefs) THEN SUBSET OsmIdValues ELSE {{}}) :
       \E extraction \in ExtractRelationIds(response) :
       \E r \in {findRegions(bbox, prefs, processed, extraction, resolvable)} :
       \E result \in {[i \in 1..Len(r.infos) |-> toGeoProtoPlace(r.infos[i])]} :
            LET lookupIds == IF r.lookedUp THEN SeqToSet(r.relationIdsToProcess) ELSE {}
                returnedIds == IF r.posted /\ r.status = "returned"
                               THEN SeqToSet(extraction.value) ELSE {}
            IN
            /\ processed' = r.processed
            /\ crashed' = (r.status = "aborted")
            /\ nsteps' = nsteps + 1
            /\ call' = [happened |-> TRUE, bbox |-> bbox, prefs |-> prefs,
                        request |-> r.request, posted |-> r.posted,
                        response |-> IF r.posted THEN response ELSE EmptyText,
                        resolvable |-> IF r.posted THEN resolvable ELSE {},
                        status |-> r.status, relationIds |-> r.relationIds,
                        relationIdsToProcess |-> r.relationIdsToProcess,
                        lookedUp |-> r.lookedUp, result |-> result,
                        processedBefore |-> processed,
                        retried |-> (lookupIds \cap failed # {})]
            /\ emitted' = [id \in OsmIdValues |->
                             emitted[id] + Count(result, toGeoProtoPlace(RelationInfo(id)))]
            /\ eligible' = [id \in OsmIdValues |->
                             eligible[id] + (IF id \in returnedIds \cap resolvable THEN 1 ELSE 0)]
            /\ failed' = failed \cup (lookupIds \ resolvable)
    /\ UNCHANGED started

(***************************************************************************)
(* The specifications.  Each one runs its own part and leaves the other    *)
(* parts idle.                                                             *)
(***************************************************************************)
Next ==
    \/ StartFindRegions /\ UNCHANGED <<compVars, exVars, rollVars>>
    \/ Step /\ UNCHANGED <<compVars, exVars, rollVars>>
Spec == Init /\ [][Next]_vars

NextCompose == Compose /\ UNCHANGED <<sessVars, exVars, rollVars>>
InitCompose ==
    /\ compIn \in ComposeInputs /\ compOut = [done |-> FALSE, request |-> NoRequest]
    /\ started = FALSE /\ processed = {} /\ crashed = FALSE /\ call = NoCall
    /\ nsteps = 0 /\ emitted = NoCounts /\ eligible = NoCounts /\ failed = {}
    /\ exJson = EmptyText /\ exCall = "idle" /\ exOut = NoParse
    /\ rollIn = IdleRollIn /\ rollOut = IdleRollOut
SpecCompose == InitCompose /\ [][NextCompose]_vars

NextExtract ==
    \/ CallExtractRelationIds /\ UNCHANGED <<sessVars, compVars, rollVars>>
    \/ CallExtractNodes /\ UNCHANGED <<sessVars, compVars, rollVars>>
InitExtract ==
    /\ exJson \in JsonValues /\ exCall = "none" /\ exOut = NoParse
    /\ started = FALSE /\ processed = {} /\ crashed = FALSE /\ call = NoCall
    /\ nsteps = 0 /\ emitted = NoCounts /\ eligible = NoCounts /\ failed = {}
    /\ compIn = IdleCompIn /\ compOut = IdleCompOut
    /\ rollIn = IdleRollIn /\ rollOut = IdleRollOut
SpecExtract == InitExtract /\ [][NextExtract]_vars

NextRoll == Roll /\ UNCHANGED <<sessVars, compVars, exVars>>
InitRoll ==
    /\ rollIn \in RollInputs /\ rollOut = [done |-> FALSE, ranges |-> NoRanges]
    /\ started = FALSE /\ processed = {} /\ crashed = FALSE /\ call = NoCall
    /\ nsteps = 0 /\ emitted = NoCounts /\ eligible = NoCounts /\ failed = {}
    /\ compIn = IdleCompIn /\ compOut = IdleCompOut
    /\ exJson = EmptyText /\ exCall = "idle" /\ exOut = NoParse
SpecRoll == InitRoll /\ [][NextRoll]_vars

(***************************************************************************)
(* The claims.                                                             *)
(***************************************************************************)

\* C1: over a whole session at most one place record is returned for a
\* region id, neither twice by one invocation nor by two invocations.
C1_AtMostOnePlacePerRegion == \A id \in OsmIdValues : emitted[id] <= 1

\* C1 witness: two invocations posted and got the resolvable id 1 back, the
\* last of them in a response that lists the id twice.
C1_Witness ==
    /\ eligible[1] >= 2
    /\ call.posted /\ call.response = Response(<<Relation(1), Relation(1)>>)
    /\ 1 \in call.resolvable

\* C2: when the handler was invoked twice, both invocations posted a request
\* and got a common id back that the geocoding service resolves, the id's
\* place is in the output of exactly one of the two invocations.
C2_SharedIdEmittedExactlyOnce ==
    \A id \in OsmIdValues : (nsteps = 2 /\ eligible[id] = 2) => emitted[id] = 1

\* C3: an invocation that got a response leaves every unseen id (the
\* extracted ids minus the processed set it started with) in the processed
\* set, and hands no id to the geocoding lookup that the lookup failed to
\* resolve before.
C3_UnseenIdsProcessed ==
    (call.happened /\ call.posted /\ call.status = "returned") =>
        /\ (SeqToSet(call.relationIds) \ call.processedBefore) \subseteq processed
        /\ ~call.retried

\* more than 2000 km in either dimension
Oversized(bbox) == bbox.width > Km(2000) \/ bbox.height > Km(2000)

\* C4: for a bounding box wider or higher than 2000 km the invocation returns
\* nothing and calls neither the transport nor the geocoding lookup.
C4_OversizedBoxRejected ==
    (call.happened /\ Oversized(call.bbox)) =>
        (call.result = <<>> /\ ~call.posted /\ ~call.lookedUp)

\* no feature is enabled, or peaks alone without "minPeakHeight"
NothingToQuery(prefs) ==
    \/ prefs.objects = {}
    \/ prefs.objects = {GEOGRAPHICAL_FEATURE_PEAKS} /\ ~HasProperty(prefs, "minPeakHeight")

\* C5: with no feature enabled, or peaks alone enabled without minPeakHeight,
\* the composed request is empty and the invocation returns nothing without a
\* transport call.
C5_NothingToQueryNoTransport ==
    (call.happened /\ NothingToQuery(call.prefs)) =>
        /\ formatRegionsRequest(call.prefs, call.bbox) = <<>>
        /\ call.request = <<>>
        /\ ~call.posted
        /\ call.result = <<>>

\* C5 witness: an invocation with an acceptable bounding box and peaks alone
\* enabled without minPeakHeight has returned.
C5_Witness ==
    /\ call.happened /\ call.status = "returned"
    /\ isValidBoundingBox(call.bbox)
    /\ call.prefs.objects = {GEOGRAPHICAL_FEATURE_PEAKS}
    /\ ~HasProperty(call.prefs, "minPeakHeight")

\* the label each feature's sub-query is to store its relations under
LabelOfDef(def) ==
    CASE def = "sz_nodeAirportsDef" -> ".relA"
      [] def = "sz_nodePeaksDef" -> ".relP"
      [] def = "sz_nodeSeaBeachesDef" -> ".relS"
      [] def = "sz_nodeSaltLakesDef" -> ".relL"

OutsOf(request, seg) ==
    LET picked == SelectSeq(request, LAMBDA x : x.seg = seg)
    IN  [i \in 1..Len(picked) |-> picked[i].out]

\* C6: in a non-empty request every sub-query stores under the label of its
\* own feature, and the intersection names exactly the labels the sub-queries
\* stored under (so a skipped sub-query contributes no label).
C6_IntersectionNamesStoredLabels ==
    (compOut.done /\ compOut.request # <<>>) =>
        /\ \A i \in 1..Len(compOut.request) :
              compOut.request[i].seg = "relationsByNodes" =>
                  compOut.request[i].out = LabelOfDef(compOut.request[i].def)
        /\ OutsOf(compOut.request, "label") = OutsOf(compOut.request, "relationsByNodes")

DurationDays(range) == SysDays(range[2]) - SysDays(range[1])

\* C7: every range CollectHistoricalRanges returns spans as many days as the
\* input range.
C7_DurationPreserved ==
    rollOut.done =>
        \A i \in 1..Len(rollOut.ranges) :
            DurationDays(rollOut.ranges[i]) = DurationDays(rollIn.dateRange)

C9_MalformedYieldsEmpty ==
    (exCall \in {"ExtractRelationIds", "ExtractNodes"} /\ exJson \in MalformedJson) =>
        (exOut.status = "returned" /\ exOut.value = <<>>)

RelationElementIds(json) ==
    LET rels == SelectSeq(json.elements, LAMBDA e : e.type = "relation")
    IN  [i \in 1..Len(rels) |-> rels[i].id]

\* C10: on a well-formed response ExtractRelationIds returns the ids of the
\* elements of type "relation", one per such element, in element order.
C10_RelationIdsInElementOrder ==
    (exCall = "ExtractRelationIds" /\ WellFormed(exJson)) =>
        /\ exOut.status = "returned"
        /\ exOut.value = RelationElementIds(exJson)
        /\ Len(exOut.value) =
              Cardinality({i \in 1..Len(exJson.elements) : exJson.elements[i].type = "relation"})

\* C10 witness: a relation, a node and another relation were parsed to the
\* two relation ids in that order.
C10_Witness ==
    /\ exCall = "ExtractRelationIds"
    /\ exJson = Response(<<Relation(2), NodeElement, Relation(1)>>)
    /\ exOut = Returned(<<2, 1>>)

\* C11: the processed set is empty when StartFindRegions has returned, no
\* invocation removes an id from it (the set an invocation started with is a
\* subset of the set it leaves), and an invocation that returns before the
\* transport call (oversized bounding box, empty request) leaves it as it was.
C11_ProcessedSetOnlyGrows ==
    /\ (started /\ nsteps = 0) => processed = {}
    /\ call.happened => call.processedBefore \subseteq processed
    /\ (call.happened /\ ~call.posted) => processed = call.processedBefore

\* C11 witness: after an invocation that posted and got the resolvable id 1
\* back, an invocation with a rejected bounding box has returned early.
C11_Witness ==
    /\ nsteps = 2 /\ eligible[1] >= 1
    /\ call.happened /\ call.status = "returned" /\ ~call.posted
    /\ ~isValidBoundingBox(call.bbox)

====
